---- MODULE Spec2Model ----
(***************************************************************************)
(* A model of schedgroup.Group                                             *)
(* (conferences/2020/gopherconeu/final/schedgroup/group.go): a heap of     *)
(* deadline-ordered tasks, the monitor goroutine that dispatches them, the *)
(* producers calling Schedule/Delay and the single caller of Wait.         *)
(*                                                                         *)
(* Time is a small integer clock.  The last clock value MaxTime stands for *)
(* "MaxTime or later": the clock stops there and a timer armed for a later *)
(* instant fires there.  Zero is time.Time{}, before every instant.        *)
(***************************************************************************)
EXTENDS Integers, Sequences, FiniteSets, TLC

\* ------------------------------------------------------------------ bounds
MaxTime == 3

MaxTasks == 2

\* ------------------------------------------------------------- constants
\* time.Time{}, the result of trigger when the heap is empty
Zero == 0

\* the instant of New
StartTime == Zero + 1

\* the goroutines that call Schedule and Delay
Producers == {"p1", "p2"}

\* the delays given to Delay
Delays == {0, 1}

Times == StartTime..MaxTime

VARIABLES
    clock,      \* time.Now()
    ctxErr,     \* g.ctx.Err() != nil : the outer cancellation has fired
    mctxErr,    \* the derived context of the monitor is cancelled
    mu,         \* g.mu : "free" or held by the "monitor" or a "producer"
    tasks,      \* g.tasks : the heap array of [Deadline, Call]
    wg,         \* g.wg : the WaitGroup counter
    monPc,      \* position of the monitor goroutine
    monNow,     \* monitor's local now
    monNext,    \* monitor's local next (the result of trigger)
    tickC,      \* monitor's local tickC is t.C (TRUE) or nil (FALSE)
    timerAt,    \* instant the timer t is armed for, Zero when stopped
    tC,         \* a value is buffered in t.C
    waitPc,     \* position of the caller of Wait
    waitN,      \* Wait's local n
    waitRet,    \* what Wait returned: "none", "nil" or "err"
    prodPc,     \* position of each producer inside Schedule
    running,    \* task bodies started and not finished
    order,      \* the Call of every body started, in start order
    sched,      \* the Deadline of every task Schedule accepted, by Call
    inTime,     \* every push so far came before the earliest Deadline pushed
    late        \* some Schedule call had not returned when Wait was entered

vars == <<clock, ctxErr, mctxErr, mu, tasks, wg, monPc, monNow, monNext,
          tickC, timerAt, tC, waitPc, waitN, waitRet, prodPc,
          running, order, sched, inTime, late>>

\* ---------------------------------------------------------------- helpers
Min(a, b) == IF a <= b THEN a ELSE b

\* pq[i] of the Go slice (0-based)
At0(pq, i) == pq[i + 1]

\* tasks.Len
HeapLen(pq) == Len(pq)

\* tasks.Less, mutated: the comparison is reversed
LessReversed(pq, i, j) == At0(pq, i).Deadline > At0(pq, j).Deadline

\* tasks.Less : Deadline.Before
Less(pq, i, j) == At0(pq, i).Deadline < At0(pq, j).Deadline

\* tasks.Swap
Swap(pq, i, j) ==
    [k \in 1..Len(pq) |->
        IF k = i + 1 THEN pq[j + 1] ELSE IF k = j + 1 THEN pq[i + 1] ELSE pq[k]]

\* container/heap up(h, j), mutated: the pushed element is not sifted up
upNone(pq, j) == pq

\* container/heap up(h, j)
RECURSIVE up(_, _)
up(pq, j) ==
    LET i == (j - 1) \div 2 IN
    IF j = 0 \/ i = j \/ ~Less(pq, j, i) THEN pq
    ELSE up(Swap(pq, i, j), i)

\* container/heap down(h, i0, n)
RECURSIVE down(_, _, _)
down(pq, i, n) ==
    LET j1 == 2 * i + 1
        j2 == j1 + 1
        j  == IF j2 < n /\ Less(pq, j2, j1) THEN j2 ELSE j1
    IN  IF j1 >= n THEN pq
        ELSE IF ~Less(pq, j, i) THEN pq
        ELSE down(Swap(pq, i, j), j, n)

\* heap.Push(&g.tasks, x) : tasks.Push appends, then up(n-1)
heapPush(pq, x) == up(Append(pq, x), Len(pq))

\* heap.Pop, mutated: tasks.Pop drops the last element without the Swap and
\* down of heap.Pop, and the root that was peeked is the one run
heapPopNoSwap(pq) == [item |-> pq[1], rest |-> SubSeq(pq, 1, Len(pq) - 1)]

\* heap.Pop(&g.tasks) : Swap(0, n-1), down(0, n-1), tasks.Pop removes the last
heapPop(pq) ==
    LET n == Len(pq) - 1
        h == down(Swap(pq, 0, n), 0, n)
    IN  [item |-> h[n + 1], rest |-> SubSeq(h, 1, n)]

\* next.Deadline.After(now), mutated: every root counts as ready
AfterNever(d, now) == FALSE

\* next.Deadline.After(now)
After(d, now) == d > now

\* Group.trigger, lines 193-211: the pop loop.  Returns the heap left, the
\* Calls started in order and the result (next deadline or Zero).
RECURSIVE triggerLoop(_, _, _)
triggerLoop(pq, now, started) ==
    IF HeapLen(pq) > 0
    THEN IF After(At0(pq, 0).Deadline, now)
         THEN [pq |-> pq, started |-> started, next |-> At0(pq, 0).Deadline]
         ELSE LET p == heapPop(pq)
              IN  triggerLoop(p.rest, now, Append(started, p.item.Call))
    ELSE [pq |-> pq, started |-> started, next |-> Zero]

\* how many times c occurs in the sequence s
RECURSIVE Count(_, _)
Count(s, c) ==
    IF s = <<>> THEN 0
    ELSE (IF Head(s) = c THEN 1 ELSE 0) + Count(Tail(s), c)

TaskIds == 1..MaxTasks

\* ------------------------------------------------------------------- Init
\* New: the contexts are live, the channels empty, wg.Add(1) for the
\* monitor, which starts at time.NewTimer(0).
Init ==
    /\ clock = StartTime
    /\ ctxErr = FALSE
    /\ mctxErr = FALSE
    /\ mu = "free"
    /\ tasks = <<>>
    /\ wg = 1
    /\ monPc = "top"
    /\ monNow = Zero
    /\ monNext = Zero
    /\ tickC = FALSE
    /\ timerAt = StartTime
    /\ tC = FALSE
    /\ waitPc = "idle"
    /\ waitN = 0
    /\ waitRet = "none"
    /\ prodPc = [p \in Producers |-> "idle"]
    /\ running = [c \in TaskIds |-> 0]
    /\ order = <<>>
    /\ sched = <<>>
    /\ inTime = TRUE
    /\ late = FALSE

\* ------------------------------------------------------------ environment
\* the wall clock advances
Tick ==
    /\ clock < MaxTime
    /\ clock' = clock + 1
    /\ UNCHANGED <<ctxErr, mctxErr, mu, tasks, wg, monPc, monNow, monNext,
                   tickC, timerAt, tC, waitPc, waitN, waitRet,
                   prodPc, running, order, sched, inTime, late>>

\* the runtime fires the timer t: a non-blocking send on the 1-buffered t.C
TimerFire ==
    /\ timerAt # Zero
    /\ clock >= timerAt
    /\ timerAt' = Zero
    /\ tC' = TRUE
    /\ UNCHANGED <<clock, ctxErr, mctxErr, mu, tasks, wg, monPc, monNow,
                   monNext, tickC, waitPc, waitN, waitRet, prodPc,
                   running, order, sched, inTime, late>>

\* the caller cancels the context passed to New; the derived one follows
Cancel ==
    /\ ~ctxErr
    /\ ctxErr' = TRUE
    /\ mctxErr' = TRUE
    /\ UNCHANGED <<clock, mu, tasks, wg, monPc, monNow, monNext, tickC,
                   timerAt, tC, waitPc, waitN, waitRet, prodPc,
                   running, order, sched, inTime, late>>

\* a task body returns, mutated: its goroutine has no deferred g.wg.Done()
BodyFinishNoDone(c) ==
    /\ running[c] > 0
    /\ running' = [running EXCEPT ![c] = @ - 1]
    /\ UNCHANGED <<clock, ctxErr, mctxErr, mu, tasks, wg, monPc, monNow,
                   monNext, tickC, timerAt, tC, waitPc, waitN, waitRet,
                   prodPc, order, sched, inTime, late>>

\* a task body returns: the deferred g.wg.Done() of its goroutine
BodyFinish(c) ==
    /\ running[c] > 0
    /\ running' = [running EXCEPT ![c] = @ - 1]
    /\ wg' = wg - 1
    /\ UNCHANGED <<clock, ctxErr, mctxErr, mu, tasks, monPc, monNow, monNext,
                   tickC, timerAt, tC, waitPc, waitN, waitRet,
                   prodPc, order, sched, inTime, late>>

\* -------------------------------------------------------------- producers
\* Schedule, lines 68-74: take the mutex and push the task
SchedPush(p, when) ==
    /\ prodPc[p] = "idle"
    /\ Len(sched) < MaxTasks
    /\ mu = "free"
    /\ mu' = "producer"
    /\ tasks' = heapPush(tasks, [Deadline |-> when, Call |-> Len(sched) + 1])
    /\ sched' = Append(sched, when)
    /\ inTime' = \A c \in 1..Len(sched') : clock < sched'[c]
    /\ late' = (late \/ waitPc # "idle")
    /\ prodPc' = [prodPc EXCEPT ![p] = "kick"]
    /\ UNCHANGED <<clock, ctxErr, mctxErr, wg, monPc, monNow, monNext, tickC,
                   timerAt, tC, waitPc, waitN, waitRet, running,
                   order>>

\* Schedule(when, fn) with any instant, past, present or future
Schedule(p) == \E when \in Times : SchedPush(p, when)

\* Delay(delay, fn): Schedule(time.Now().Add(delay), fn); time.Now() was
\* read at t0, no later than the push
Delay(p) ==
    \E t0 \in StartTime..clock, d \in Delays :
        /\ t0 + d <= MaxTime
        /\ SchedPush(p, t0 + d)

\* Schedule, lines 77-81: the non-blocking send on addC, received only by a
\* monitor parked in its select, then the deferred Unlock
SchedKick(p) ==
    /\ prodPc[p] = "kick"
    /\ mu = "producer"
    /\ mu' = "free"
    /\ prodPc' = [prodPc EXCEPT ![p] = "idle"]
    /\ monPc' = IF monPc = "parked" THEN "top" ELSE monPc
    /\ UNCHANGED <<clock, ctxErr, mctxErr, tasks, wg, monNow, monNext, tickC,
                   timerAt, tC, waitPc, waitN, waitRet, running,
                   order, sched, inTime, late>>

\* ---------------------------------------------------------------- monitor
\* monitor, lines 142-148, mutated: the context is never looked at
MonTopNoCheck ==
    /\ monPc = "top"
    /\ monPc' = "trigger"
    /\ monNow' = clock
    /\ monNext' = Zero
    /\ tickC' = FALSE
    /\ UNCHANGED <<clock, ctxErr, mctxErr, mu, tasks, wg, timerAt, tC, waitPc,
                   waitN, waitRet, prodPc, running, order, sched, inTime,
                   late>>

\* monitor, lines 142-148: return (deferred t.Stop, then the wg.Done of the
\* goroutine started by New) when the derived context is cancelled, else
\* read now; the locals of the loop body are fresh in every iteration
MonTop ==
    /\ monPc = "top"
    /\ IF mctxErr
       THEN /\ monPc' = "exited"
            /\ timerAt' = Zero
            /\ tC' \in {tC, FALSE}
            /\ wg' = wg - 1
            /\ monNow' = Zero
       ELSE /\ monPc' = "trigger"
            /\ monNow' = clock
            /\ UNCHANGED <<timerAt, tC, wg>>
    /\ monNext' = Zero
    /\ tickC' = FALSE
    /\ UNCHANGED <<clock, ctxErr, mctxErr, mu, tasks,
                   waitPc, waitN, waitRet, prodPc, running,
                   order, sched, inTime, late>>

\* trigger, lines 177 and 193-211: take the mutex, pop and start every task
\* that is ready as of now (wg.Add(1) and a goroutine each)
MonTrigger ==
    /\ monPc = "trigger"
    /\ mu = "free"
    /\ LET r == triggerLoop(tasks, monNow, <<>>) IN
        /\ tasks' = r.pq
        /\ monNext' = r.next
        /\ order' = order \o r.started
        /\ running' = [c \in TaskIds |-> running[c] + Count(r.started, c)]
        /\ wg' = wg + Len(r.started)
    /\ mu' = "monitor"
    /\ monPc' = "defer"
    /\ UNCHANGED <<clock, ctxErr, mctxErr, monNow, tickC, timerAt, tC,
                   waitPc, waitN, waitRet, prodPc, sched,
                   inTime, late>>

\* the value trigger offers on lenC, mutated: off by one
RemainingOneLess(pq) == IF HeapLen(pq) > 0 THEN HeapLen(pq) - 1 ELSE 0

\* the value trigger offers on lenC, mutated: always 0
RemainingNone(pq) == 0

\* the value trigger offers on lenC: g.tasks.Len()
Remaining(pq) == HeapLen(pq)

\* trigger, lines 178-188: the deferred non-blocking send of the heap length
\* on lenC, received only by a Wait parked in its select, then the Unlock
MonDefer ==
    /\ monPc = "defer"
    /\ mu = "monitor"
    /\ IF waitPc = "select"
       THEN /\ waitN' = Remaining(tasks)
            /\ waitPc' = "recvd"
       ELSE UNCHANGED <<waitN, waitPc>>
    /\ mu' = "free"
    /\ monPc' = "arm"
    /\ UNCHANGED <<clock, ctxErr, mctxErr, tasks, wg, monNow, monNext, tickC,
                   timerAt, tC, waitRet, prodPc, running,
                   order, sched, inTime, late>>

\* monitor, lines 150-156, mutated: tickC is set to t.C even when trigger
\* returned the zero time
MonArmAlwaysTick ==
    /\ monPc = "arm"
    /\ timerAt' = IF monNext # Zero
                  THEN Min(clock + (monNext - monNow), MaxTime) ELSE Zero
    /\ tickC' = TRUE
    /\ tC' \in {tC, FALSE}
    /\ monPc' = "select"
    /\ UNCHANGED <<clock, ctxErr, mctxErr, mu, tasks, wg, monNow, monNext,
                   waitPc, waitN, waitRet, prodPc, running, order, sched,
                   inTime, late>>

\* monitor, lines 150-156: t.Reset(next.Sub(now)) and tickC = t.C, or
\* t.Stop() with tickC left nil.  A value already buffered in t.C survives
\* Stop and Reset with the timers of Go before 1.23 and is dropped by the
\* later ones.
MonArm ==
    /\ monPc = "arm"
    /\ IF monNext # Zero
       THEN /\ timerAt' = Min(clock + (monNext - monNow), MaxTime)
            /\ tickC' = TRUE
       ELSE /\ timerAt' = Zero
            /\ tickC' = FALSE
    /\ tC' \in {tC, FALSE}
    /\ monPc' = "select"
    /\ UNCHANGED <<clock, ctxErr, mctxErr, mu, tasks, wg, monNow, monNext,
                   waitPc, waitN, waitRet, prodPc, running,
                   order, sched, inTime, late>>

\* monitor, lines 160-167: entering the select; a ready case is taken at
\* once (either one when both are), else the goroutine parks
MonSelect ==
    /\ monPc = "select"
    /\ \/ /\ mctxErr
          /\ monPc' = "top"
          /\ UNCHANGED tC
       \/ /\ tickC /\ tC
          /\ monPc' = "top"
          /\ tC' = FALSE
       \/ /\ ~mctxErr /\ ~(tickC /\ tC)
          /\ monPc' = "parked"
          /\ UNCHANGED tC
    /\ UNCHANGED <<clock, ctxErr, mctxErr, mu, tasks, wg, monNow, monNext,
                   tickC, timerAt, waitPc, waitN, waitRet, prodPc,
                   running, order, sched, inTime, late>>

\* monitor, line 161, mutated: the select has no ctx.Done() case
MonWakeCtxMissing ==
    /\ FALSE
    /\ UNCHANGED vars

\* monitor, line 161: the parked select is woken by ctx.Done()
MonWakeCtx ==
    /\ monPc = "parked"
    /\ mctxErr
    /\ monPc' = "top"
    /\ UNCHANGED <<clock, ctxErr, mctxErr, mu, tasks, wg, monNow, monNext,
                   tickC, timerAt, tC, waitPc, waitN, waitRet,
                   prodPc, running, order, sched, inTime, late>>

\* monitor, line 165: the parked select is woken by a value on tickC
MonWakeTick ==
    /\ monPc = "parked"
    /\ tickC /\ tC
    /\ tC' = FALSE
    /\ monPc' = "top"
    /\ UNCHANGED <<clock, ctxErr, mctxErr, mu, tasks, wg, monNow, monNext,
                   tickC, timerAt, waitPc, waitN, waitRet, prodPc,
                   running, order, sched, inTime, late>>

\* ------------------------------------------------------------------- Wait
\* Wait, lines 90-93, mutated: the context is not looked at on entry
WaitEnterNoCheck ==
    /\ waitPc = "idle"
    /\ waitPc' = "lock"
    /\ late' = (late \/ \E p \in Producers : prodPc[p] # "idle")
    /\ UNCHANGED <<clock, ctxErr, mctxErr, mu, tasks, wg, monPc, monNow,
                   monNext, tickC, timerAt, tC, waitN, waitRet, prodPc,
                   running, order, sched, inTime>>

\* Wait, lines 90-93: the cancelation check on entry
WaitEnter ==
    /\ waitPc = "idle"
    /\ IF ctxErr
       THEN /\ waitPc' = "done"
            /\ waitRet' = "err"
       ELSE /\ waitPc' = "lock"
            /\ UNCHANGED waitRet
    /\ late' = (late \/ \E p \in Producers : prodPc[p] # "idle")
    /\ UNCHANGED <<clock, ctxErr, mctxErr, mu, tasks, wg, monPc, monNow,
                   monNext, tickC, timerAt, tC, waitN, prodPc,
                   running, order, sched, inTime>>

\* Wait, lines 96-107: under the mutex, see if the heap is already empty
WaitCheckHeap ==
    /\ waitPc = "lock"
    /\ mu = "free"
    /\ waitPc' = IF HeapLen(tasks) = 0 THEN "cancel" ELSE "loop"
    /\ UNCHANGED <<clock, ctxErr, mctxErr, mu, tasks, wg, monPc, monNow,
                   monNext, tickC, timerAt, tC, waitN, waitRet,
                   prodPc, running, order, sched, inTime, late>>

\* Wait, lines 103 and 126, mutated: g.cancel() is forgotten
WaitCancelForgotten ==
    /\ waitPc = "cancel"
    /\ waitPc' = "wgwait"
    /\ UNCHANGED <<clock, ctxErr, mctxErr, mu, tasks, wg, monPc, monNow,
                   monNext, tickC, timerAt, tC, waitN, waitRet,
                   prodPc, running, order, sched, inTime, late>>

\* Wait, lines 103 and 126: g.cancel() stops the monitor
WaitCancel ==
    /\ waitPc = "cancel"
    /\ mctxErr' = TRUE
    /\ waitPc' = "wgwait"
    /\ UNCHANGED <<clock, ctxErr, mu, tasks, wg, monPc, monNow, monNext,
                   tickC, timerAt, tC, waitN, waitRet, prodPc,
                   running, order, sched, inTime, late>>

\* g.wg.Wait() may return, mutated: the running bodies are not waited for
WgMonitorOnly(n) == monPc = "exited"

\* g.wg.Wait() may return: the counter is zero
WgZero(n) == n = 0

\* Wait, lines 104-105 and 127-128: g.wg.Wait() returns, Wait returns nil
WaitDrained ==
    /\ waitPc = "wgwait"
    /\ WgZero(wg)
    /\ waitPc' = "done"
    /\ waitRet' = "nil"
    /\ UNCHANGED <<clock, ctxErr, mctxErr, mu, tasks, wg, monPc, monNow,
                   monNext, tickC, timerAt, tC, waitN, prodPc,
                   running, order, sched, inTime, late>>

\* Wait, lines 115-117: entering the select; a fired ctx.Done() is taken at
\* once, else the goroutine parks (no sender ever blocks on lenC)
WaitSelect ==
    /\ waitPc = "loop"
    /\ IF ctxErr
       THEN /\ waitPc' = "done"
            /\ waitRet' = "err"
       ELSE /\ waitPc' = "select"
            /\ UNCHANGED waitRet
    /\ UNCHANGED <<clock, ctxErr, mctxErr, mu, tasks, wg, monPc, monNow,
                   monNext, tickC, timerAt, tC, waitN, prodPc,
                   running, order, sched, inTime, late>>

\* Wait, lines 116-117: the parked select is woken by ctx.Done()
WaitWakeCtx ==
    /\ waitPc = "select"
    /\ ctxErr
    /\ waitPc' = "done"
    /\ waitRet' = "err"
    /\ UNCHANGED <<clock, ctxErr, mctxErr, mu, tasks, wg, monPc, monNow,
                   monNext, tickC, timerAt, tC, waitN, prodPc,
                   running, order, sched, inTime, late>>

\* Wait, line 119, mutated: the context is not looked at after a receive
RecheckSkipped(err) == FALSE

\* Wait, line 119: g.ctx.Err() != nil after a receive from lenC
Recheck(err) == err

\* Wait, lines 118-129: after n = <-g.lenC, cancelation takes priority, n == 0
\* ends the loop, anything else selects again
WaitRecvd ==
    /\ waitPc = "recvd"
    /\ IF Recheck(ctxErr)
       THEN /\ waitPc' = "done"
            /\ waitRet' = "err"
       ELSE /\ waitPc' = IF waitN = 0 THEN "cancel" ELSE "loop"
            /\ UNCHANGED waitRet
    /\ UNCHANGED <<clock, ctxErr, mctxErr, mu, tasks, wg, monPc, monNow,
                   monNext, tickC, timerAt, tC, waitN, prodPc,
                   running, order, sched, inTime, late>>

\* ------------------------------------------------------------------- Next
Monitor ==
    \/ MonTop
    \/ MonTrigger
    \/ MonDefer
    \/ MonArm
    \/ MonSelect
    \/ MonWakeCtx
    \/ MonWakeTick

Wait ==
    \/ WaitEnter
    \/ WaitCheckHeap
    \/ WaitCancel
    \/ WaitDrained
    \/ WaitSelect
    \/ WaitWakeCtx
    \/ WaitRecvd

Next ==
    \/ Tick
    \/ TimerFire
    \/ Cancel
    \/ \E c \in TaskIds : BodyFinish(c)
    \/ \E p \in Producers : Schedule(p)
    \/ \E p \in Producers : Delay(p)
    \/ \E p \in Producers : SchedKick(p)
    \/ Monitor
    \/ Wait

Spec == Init /\ [][Next]_vars

\* What the Go scheduler and the runtime guarantee: a goroutine that can
\* take a step takes it, time passes, an expired timer fires, a body that
\* was started returns.  Nothing obliges the callers to call Schedule, Delay,
\* Wait or to cancel.
Fairness ==
    /\ WF_vars(Tick)
    /\ WF_vars(TimerFire)
    /\ WF_vars(Monitor)
    /\ WF_vars(Wait /\ waitPc # "idle")
    /\ \A c \in TaskIds : WF_vars(BodyFinish(c))
    /\ \A p \in Producers : WF_vars(SchedKick(p))

FairSpec == Spec /\ Fairness

TypeOK ==
    /\ clock \in Times
    /\ wg \in 0..(MaxTasks + 1)
    /\ mu \in {"free", "monitor", "producer"}
    /\ monPc \in {"top", "trigger", "defer", "arm", "select", "parked", "exited"}
    /\ waitPc \in {"idle", "lock", "cancel", "wgwait", "loop", "select", "recvd", "done"}
    /\ waitRet \in {"none", "nil", "err"}
    /\ Len(sched) <= MaxTasks

\* ----------------------------------------------------------------- claims
Accepted == 1..Len(sched)

OnHeap(c) == \E i \in 1..Len(tasks) : tasks[i].Call = c

DistinctDeadlines == \A a, b \in Accepted : a # b => sched[a] # sched[b]

\* C1: when every Schedule/Delay call returned before Wait was entered and
\* the outer cancellation has not fired, a Wait that returned nil leaves an
\* empty heap, and every accepted task was started exactly once and its body
\* has returned: N accepted tasks, N completed bodies.
WaitSuccessAllRan ==
    (waitRet = "nil" /\ ~late /\ ~ctxErr) =>
        /\ tasks = <<>>
        /\ Len(order) = Len(sched)
        /\ \A c \in Accepted : Count(order, c) = 1 /\ running[c] = 0

\* C1 witness: Wait returned nil after MaxTasks tasks were scheduled in time
WaitSuccessAllRanWitness ==
    /\ waitRet = "nil" /\ ~late /\ ~ctxErr
    /\ Len(sched) = MaxTasks
    /\ Len(order) = MaxTasks

\* C2: with no outer cancellation and no Schedule overlapping or following
\* the entry of Wait, a Wait that was entered eventually returns nil.
WaitTerminates ==
    [](~ctxErr /\ ~late) => ((waitPc # "idle") ~> (waitRet = "nil"))

\* C3: while neither cancellation has fired, every task Schedule accepted is
\* eventually started (every deadline passes: the clock reaches MaxTime).
DispatchLive ==
    []~mctxErr => \A c \in TaskIds : (Len(sched) >= c) ~> (Count(order, c) >= 1)

\* C4: a task is started at most once, is on the heap at most once, and is
\* never both on the heap and already started.
AtMostOnce ==
    \A c \in TaskIds :
        /\ Count(order, c) <= 1
        /\ Cardinality({i \in 1..Len(tasks) : tasks[i].Call = c}) <= 1
        /\ ~(OnHeap(c) /\ Count(order, c) >= 1)

\* C4 witness: one task has been started while another is still on the heap
AtMostOnceWitness ==
    /\ Len(order) >= 1
    /\ Len(tasks) >= 1

\* C5: every step that starts task bodies is a trigger pass of the monitor
\* whose now, read earlier from the clock, is not before the deadline of
\* any body it starts.
NoEarlyDispatch ==
    [][\A i \in (Len(order) + 1)..Len(order') :
          /\ monPc = "trigger"
          /\ sched[order'[i]] <= monNow
          /\ monNow <= clock]_vars

\* C5 witness: a pass started one task and left on the heap a task that is
\* not due yet
NoEarlyDispatchWitness ==
    /\ Len(order) >= 1
    /\ Len(tasks) >= 1
    /\ tasks[1].Deadline > clock

\* C6 as stated: Wait never returns nil once the outer cancellation has fired
WaitErrWheneverCancelled ==
    [][(waitRet # "nil" /\ waitRet' = "nil") => ~ctxErr]_vars

\* C6 amended: once the outer cancellation has fired, a Wait that has not yet
\* passed its entry check, or that is in its select loop (about to select,
\* parked, or just after a receive from lenC), never goes on to drain and
\* never returns nil: it returns the error.
WaitErrBeforeDrain ==
    [][(ctxErr /\ waitPc \in {"idle", "loop", "select", "recvd"}) =>
          /\ waitPc' \in {"idle", "loop", "select", "recvd", "done"}
          /\ waitRet' # "nil"
          /\ (waitPc' = "done" => waitRet' = "err")]_vars

\* C6 witness: Wait received a non-zero remaining count in its loop and then
\* returned the cancellation error
WaitErrBeforeDrainWitness ==
    /\ waitRet = "err"
    /\ waitN >= 1
    /\ ctxErr

\* C7 as stated: after the outer cancellation no body is started
NoDispatchAfterCancel ==
    [][ctxErr => order' = order]_vars

\* C7 amended: after the outer cancellation, bodies are started only by the
\* one trigger pass the monitor was already committed to (its check at the
\* top of the loop came before the cancellation); the monitor begins no
\* other pass, so what that pass leaves on the heap is abandoned.
CancelStopsDispatch ==
    [][(ctxErr /\ monPc # "trigger") =>
          (order' = order /\ monPc' # "trigger")]_vars

\* C7 witness: the monitor has exited on cancellation and a task whose
\* deadline has passed is left on the heap
CancelStopsDispatchWitness ==
    /\ ctxErr
    /\ monPc = "exited"
    /\ Len(tasks) >= 1
    /\ tasks[1].Deadline <= clock

\* C8: a Schedule or Delay call made after Wait was entered, with no outer
\* cancellation, ends in the AfterWait panic.
AfterWaitPanics ==
    [][\A p \in Producers :
          (waitPc # "idle" /\ ~ctxErr /\ prodPc[p] = "idle" /\ prodPc'[p] # "idle")
              => prodPc'[p] = "panic"]_vars

\* C9: when the accepted tasks have pairwise distinct deadlines and every one
\* of them was pushed before the earliest of those deadlines, the bodies
\* are started in ascending deadline order.
DeadlineOrder ==
    (inTime /\ DistinctDeadlines) =>
        \A i, j \in 1..Len(order) : i < j => sched[order[i]] < sched[order[j]]

\* C9 witness: two tasks pushed in descending deadline order have both started
DeadlineOrderWitness ==
    /\ inTime /\ DistinctDeadlines
    /\ Len(order) >= 2
    /\ sched[1] > sched[2]

\* C10: when Schedule is never called and the outer cancellation never fires,
\* a Wait that was entered eventually returns nil, and whenever it has
\* returned nil the monitor has exited.
EmptyGroupWait ==
    [](sched = <<>> /\ ~ctxErr) =>
        /\ (waitPc # "idle") ~> (waitRet = "nil")
        /\ [](waitRet = "nil" => monPc = "exited")

\* C10 witness: Wait returned nil on a group that never had a task
EmptyGroupWaitWitness ==
    /\ sched = <<>>
    /\ ~ctxErr
    /\ waitRet = "nil"
    /\ monPc = "exited"

\* C11: a Wait entered after the outer cancellation has fired returns the
\* error in that very step and touches nothing of the Group: the mutex, the
\* heap, the wait-counter, the derived context, its own n and the monitor
\* are as they were, whatever is on the heap or running.
WaitCancelledOnEntry ==
    [][(waitPc = "idle" /\ ctxErr /\ waitPc' # "idle") =>
          /\ waitPc' = "done"
          /\ waitRet' = "err"
          /\ UNCHANGED <<mu, tasks, wg, mctxErr, waitN, monPc, running,
                         order>>]_vars

\* C11 witness: Wait has returned the error without ever receiving a count,
\* with a task on the heap and a body still running
WaitCancelledOnEntryWitness ==
    /\ waitRet = "err"
    /\ waitN = 0
    /\ Len(tasks) >= 1
    /\ \E c \in TaskIds : running[c] > 0

\* C12 as stated: once Wait has returned, with nil or with the error, the
\* monitor has exited and no body is running
WaitReturnQuiescent ==
    waitPc = "done" => (monPc = "exited" /\ \A c \in TaskIds : running[c] = 0)

\* C12 amended: once Wait has returned nil, the monitor has exited, no body
\* is running and the wait-counter is zero; a Wait that returns the error
\* waits for neither.
WaitNilQuiescent ==
    waitRet = "nil" =>
        /\ monPc = "exited"
        /\ \A c \in TaskIds : running[c] = 0
        /\ wg = 0

\* C12 witness: Wait returned nil after bodies had been launched
WaitNilQuiescentWitness ==
    /\ waitRet = "nil"
    /\ Len(order) = MaxTasks

\* C13: with producers scheduling while one goroutine is in Wait and no
\* cancellation, a Wait that has returned nil finds every producer out of
\* Schedule, the heap empty and every accepted task started once and
\* finished.
WaitSuccessCoversProducers ==
    (waitRet = "nil" /\ ~ctxErr) =>
        /\ \A p \in Producers : prodPc[p] = "idle"
        /\ tasks = <<>>
        /\ \A c \in Accepted : Count(order, c) = 1 /\ running[c] = 0

\* a producer inside Schedule can always finish its call, and whoever holds
\* the mutex can always take the step that releases it
ScheduleNeverBlocks ==
    /\ \A p \in Producers : prodPc[p] = "kick" => ENABLED SchedKick(p)
    /\ mu = "producer" => \E p \in Producers : prodPc[p] = "kick"
    /\ mu = "monitor" => ENABLED MonDefer

\* with no cancellation, every goroutine of the Group is blocked on a
\* channel nobody will send on: Wait on lenC, the monitor on addC with no
\* timer pending, no producer inside Schedule and no body running
Stuck ==
    /\ ~mctxErr
    /\ waitPc = "select"
    /\ monPc = "parked"
    /\ ~(tickC /\ (tC \/ timerAt # Zero))
    /\ \A p \in Producers : prodPc[p] = "idle"
    /\ \A c \in TaskIds : running[c] = 0

\* C14: Schedule and Delay never block once they hold the mutex, the mutex
\* is always released, and no reachable state is a deadlock of producers,
\* monitor, bodies and Wait over the mutex and the two channels.
ScheduleNoDeadlock ==
    ScheduleNeverBlocks /\ ~Stuck

\* C15: whenever the monitor is parked in its select with no cancellation
\* and no Schedule call in progress, the timer channel is enabled unless the
\* heap is empty, and the deadline the timer was armed for is no later than
\* the earliest deadline on the heap.
SleepHorizon ==
    (monPc = "parked" /\ ~mctxErr /\ mu = "free" /\ tasks # <<>>) =>
        /\ tickC
        /\ monNext <= tasks[1].Deadline

\* C16: the bodies one trigger(now) pass starts are started in non-decreasing
\* deadline order, each with a deadline <= now, and the pass leaves on the
\* heap only tasks with a deadline > now.
TriggerPassOrdered ==
    [][(monPc = "trigger" /\ monPc' = "defer") =>
          /\ \A i, j \in (Len(order) + 1)..Len(order') :
                i < j => sched[order'[i]] <= sched[order'[j]]
          /\ \A i \in (Len(order) + 1)..Len(order') : sched[order'[i]] <= monNow
          /\ \A i \in 1..Len(tasks') : tasks'[i].Deadline > monNow]_vars

\* C16 witness: the first pass of the monitor (the timer of NewTimer(0) is
\* still armed) has started two tasks of different deadlines
TriggerPassOrderedWitness ==
    /\ monPc = "defer"
    /\ timerAt = StartTime
    /\ Len(order) = 2
    /\ sched[order[1]] < sched[order[2]]

\* the earliest deadline among the tasks of pq
MinDeadline(pq) ==
    CHOOSE d \in {pq[i].Deadline : i \in 1..Len(pq)} :
        \A i \in 1..Len(pq) : d <= pq[i].Deadline

\* C17: when trigger has returned, its result is the zero time exactly when
\* the heap is empty, and otherwise the earliest deadline left on the heap,
\* which is after now; the monitor then enables the timer channel exactly
\* when the result is not the zero time, with the timer armed.
TriggerResult ==
    /\ monPc = "defer" =>
          /\ (monNext = Zero) <=> (tasks = <<>>)
          /\ tasks # <<>> => (monNext = MinDeadline(tasks) /\ monNext > monNow)
    /\ monPc = "arm" => (monNext # Zero => monNext - monNow > 0)
    /\ monPc \in {"select", "parked"} =>
          /\ tickC <=> (monNext # Zero)
          /\ (timerAt # Zero) => tickC

\* C17 witness: a pass has started one task and returned the deadline of
\* another, and the monitor is about to arm the timer
TriggerResultWitness ==
    /\ monPc = "arm"
    /\ monNext # Zero
    /\ Len(order) >= 1

\* C18: every value Wait receives on lenC is handed over by trigger while the
\* monitor holds the mutex, after its pass, and is the length of the heap
\* in that step, which no push can have changed since the pass.
RemainingCountExact ==
    [][(waitPc = "select" /\ waitPc' = "recvd") =>
          /\ mu = "monitor"
          /\ monPc = "defer"
          /\ tasks' = tasks
          /\ waitN' = Len(tasks)
          /\ (waitN' = 0 => tasks' = <<>>)]_vars

\* C18 witness: Wait has just received 0 after bodies were started
RemainingCountExactWitness ==
    /\ waitPc = "recvd"
    /\ waitN = 0
    /\ Len(order) >= 1

\* C19: the monitor never exits while the derived context is live, and once
\* the derived context is cancelled (by the outer cancellation or by Wait)
\* the monitor eventually exits, wherever it is in its loop.
MonitorRunsUntilCancel ==
    /\ [](monPc = "exited" => mctxErr)
    /\ mctxErr ~> (monPc = "exited")

\* C19 witness: the monitor has exited after Wait, not the outer context,
\* cancelled the derived context, having dispatched before
MonitorRunsUntilCancelWitness ==
    /\ monPc = "exited"
    /\ mctxErr
    /\ ~ctxErr
    /\ Len(order) >= 1

\* the sum of the numbers of the sequence s
RECURSIVE SumSeq(_)
SumSeq(s) == IF s = <<>> THEN 0 ELSE Head(s) + SumSeq(Tail(s))

\* the number of bodies started and not finished
RunningBodies == SumSeq(running)

\* C20: the wait-counter is 1 for a monitor that has not exited plus 1 for
\* every body started and not finished, never negative; it is raised only
\* by a trigger pass, when it is at least 1; once zero it stays zero; and
\* after Wait has returned nil no body is started.
WaitCounterAccounting ==
    /\ [](/\ wg = (IF monPc = "exited" THEN 0 ELSE 1) + RunningBodies
          /\ wg >= 0)
    /\ [][/\ wg' > wg => (monPc = "trigger" /\ wg >= 1)
          /\ wg = 0 => wg' = 0
          /\ waitRet = "nil" => order' = order]_vars

\* C20 witness: the counter is back to zero after bodies ran and Wait
\* returned nil
WaitCounterAccountingWitness ==
    /\ wg = 0
    /\ waitRet = "nil"
    /\ Len(order) >= 1

====
